---- MODULE Spec2Model ----
(***************************************************************************)
(* Model of the raw-nbt decoder (src/src/lib.rs).                          *)
(*                                                                         *)
(* A Parser owns a byte source and a read position.  Every read_* and      *)
(* parse_* method of the source is an operator taking the parser and       *)
(* returning the outcome together with the advanced parser; the top-level  *)
(* loop of Parser::parse is the state machine.                             *)
(*                                                                         *)
(* Numbers wider than 32 bits are kept as big-endian 16-bit limbs: an i64  *)
(* is <<signed limb, limb, limb, limb>>, the bits of an f32 are            *)
(* <<limb, limb>> and those of an f64 four limbs.  A usize obtained by     *)
(* casting a signed value is [ext, n]: the number n when ext is FALSE and  *)
(* 2^64 + n (n negative, sign extended) when ext is TRUE.                  *)
(*                                                                         *)
(* Environment: 64-bit target; an allocation request that does not exceed  *)
(* isize::MAX bytes is taken to succeed; recursion depth is not limited.   *)
(***************************************************************************)
EXTENDS Integers, Sequences, FiniteSets, TLC

\* ------------------------------------------------------------------------
\* Value: the variant and what it carries.
\* ------------------------------------------------------------------------
V(tag, val) == [tag |-> tag, val |-> val]

\* ------------------------------------------------------------------------
\* Outcomes.  st is "Ok", "Err" (a ParseError is returned) or "Panic" (the
\* call unwinds and nothing is returned).
\* ------------------------------------------------------------------------
Ok(v, p) == [st |-> "Ok", val |-> v, err |-> "None", p |-> p]

Err(e, p) == [st |-> "Err", val |-> <<>>, err |-> e, p |-> p]

Panic(p) == [st |-> "Panic", val |-> <<>>, err |-> "None", p |-> p]

\* ------------------------------------------------------------------------
\* Type
\* ------------------------------------------------------------------------
\* Faulty variant: the range check is off by one and 13 is taken for 12.
Type_try_from_upto13(byte) ==
    CASE byte = 0 -> [ok |-> TRUE, ty |-> "End"]
      [] byte = 1 -> [ok |-> TRUE, ty |-> "Byte"]
      [] byte = 2 -> [ok |-> TRUE, ty |-> "Short"]
      [] byte = 3 -> [ok |-> TRUE, ty |-> "Int"]
      [] byte = 4 -> [ok |-> TRUE, ty |-> "Long"]
      [] byte = 5 -> [ok |-> TRUE, ty |-> "Float"]
      [] byte = 6 -> [ok |-> TRUE, ty |-> "Double"]
      [] byte = 7 -> [ok |-> TRUE, ty |-> "ByteArray"]
      [] byte = 8 -> [ok |-> TRUE, ty |-> "Str"]
      [] byte = 9 -> [ok |-> TRUE, ty |-> "List"]
      [] byte = 10 -> [ok |-> TRUE, ty |-> "Compound"]
      [] byte = 11 -> [ok |-> TRUE, ty |-> "IntArray"]
      [] byte = 12 \/ byte = 13 -> [ok |-> TRUE, ty |-> "LongArray"]
      [] OTHER -> [ok |-> FALSE, ty |-> "UnknownTag"]

Type_try_from(byte) ==
    CASE byte = 0 -> [ok |-> TRUE, ty |-> "End"]
      [] byte = 1 -> [ok |-> TRUE, ty |-> "Byte"]
      [] byte = 2 -> [ok |-> TRUE, ty |-> "Short"]
      [] byte = 3 -> [ok |-> TRUE, ty |-> "Int"]
      [] byte = 4 -> [ok |-> TRUE, ty |-> "Long"]
      [] byte = 5 -> [ok |-> TRUE, ty |-> "Float"]
      [] byte = 6 -> [ok |-> TRUE, ty |-> "Double"]
      [] byte = 7 -> [ok |-> TRUE, ty |-> "ByteArray"]
      [] byte = 8 -> [ok |-> TRUE, ty |-> "Str"]
      [] byte = 9 -> [ok |-> TRUE, ty |-> "List"]
      [] byte = 10 -> [ok |-> TRUE, ty |-> "Compound"]
      [] byte = 11 -> [ok |-> TRUE, ty |-> "IntArray"]
      [] byte = 12 -> [ok |-> TRUE, ty |-> "LongArray"]
      [] OTHER -> [ok |-> FALSE, ty |-> "UnknownTag"]

\* ------------------------------------------------------------------------
\* ParseError conversions
\* ------------------------------------------------------------------------
\* Faulty variant: the UnexpectedEof arm is missing.
ParseError_from_io_no_eof(kind) == "ReadError"

ParseError_from_io(kind) ==
    IF kind = "UnexpectedEof" THEN "UnexpectedEnd" ELSE "ReadError"

\* ------------------------------------------------------------------------
\* The byte source R: Read.  Its content is the bytes of head, then count
\* bytes equal to fill, then the bytes of tail (a slice chained with a
\* repeated byte and another slice); fault = NoFault for a source that ends
\* cleanly, or the number of bytes the source delivers before its next
\* read fails with an I/O error other than end of file.
\* ------------------------------------------------------------------------
NoFault == 0 - 1

SrcLen(src) == Len(src.head) + src.count + Len(src.tail)

SrcAt(src, i) ==
    IF i <= Len(src.head) THEN src.head[i]
    ELSE IF i <= Len(src.head) + src.count THEN src.fill
    ELSE src.tail[i - Len(src.head) - src.count]

Min(a, b) == IF a <= b THEN a ELSE b

Max(a, b) == IF a >= b THEN a ELSE b

\* The bytes a..b of the content.
SrcSub(src, a, b) ==
    LET hl == Len(src.head)
        fl == Len(src.head) + src.count
    IN  SubSeq(src.head, a, Min(b, hl))
            \o [i \in 1..Max(0, Min(b, fl) - Max(a, hl + 1) + 1) |-> src.fill]
            \o SubSeq(src.tail, Max(a, fl + 1) - fl, b - fl)

\* tags and strs are history: the index of every byte read_tag took as a
\* tag, and the offset at which every read_str began.
Parser_new(src, fault) ==
    [src |-> src, pos |-> 0, fault |-> fault, tags |-> <<>>, strs |-> <<>>]

Delivered(p) == IF p.fault = NoFault THEN SrcLen(p.src) ELSE p.fault

\* Read::read_exact on a buffer of n bytes.
read_exact(p, n) ==
    IF n = 0
    THEN [ok |-> TRUE, bs |-> <<>>, kind |-> "None", p |-> p]
    ELSE IF p.pos + n <= Delivered(p)
    THEN [ok |-> TRUE, bs |-> SrcSub(p.src, p.pos + 1, p.pos + n), kind |-> "None",
          p |-> [p EXCEPT !.pos = @ + n]]
    ELSE IF p.fault # NoFault
    THEN [ok |-> FALSE, bs |-> <<>>, kind |-> "Other", p |-> [p EXCEPT !.pos = Delivered(p)]]
    ELSE [ok |-> FALSE, bs |-> <<>>, kind |-> "UnexpectedEof",
          p |-> [p EXCEPT !.pos = Delivered(p)]]

\* ------------------------------------------------------------------------
\* Integer conversions
\* ------------------------------------------------------------------------
i8_from_be_bytes(bs) == IF bs[1] >= 128 THEN bs[1] - 256 ELSE bs[1]

i16_from_be_bytes(bs) == i8_from_be_bytes(bs) * 256 + bs[2]

\* Faulty variant: the bytes are taken in little-endian order.
i32_from_le_bytes(bs) ==
    ((IF bs[4] >= 128 THEN bs[4] - 256 ELSE bs[4]) * 256 + bs[3]) * 65536 + bs[2] * 256 + bs[1]

i32_from_be_bytes(bs) == (i8_from_be_bytes(bs) * 256 + bs[2]) * 65536 + bs[3] * 256 + bs[4]

u16_from_be_bytes(bs) == bs[1] * 256 + bs[2]

i64_from_be_bytes(bs) ==
    << i16_from_be_bytes(bs), u16_from_be_bytes(SubSeq(bs, 3, 4)),
       u16_from_be_bytes(SubSeq(bs, 5, 6)), u16_from_be_bytes(SubSeq(bs, 7, 8)) >>

u32_from_be_bytes(bs) == << u16_from_be_bytes(bs), u16_from_be_bytes(SubSeq(bs, 3, 4)) >>

u64_from_be_bytes(bs) ==
    << u16_from_be_bytes(bs), u16_from_be_bytes(SubSeq(bs, 3, 4)),
       u16_from_be_bytes(SubSeq(bs, 5, 6)), u16_from_be_bytes(SubSeq(bs, 7, 8)) >>

\* `x as usize` for a signed x: sign extension to the width of usize.
as_usize(x) == [ext |-> x < 0, n |-> x]

\* Vec::with_capacity(size) and vec![0u8; size] panic with "capacity
\* overflow" when the request exceeds isize::MAX bytes.  Every element
\* type is 1..32 bytes wide and a non-extended size is below 2^31, so the
\* request exceeds isize::MAX exactly for the sign-extended sizes.
capacity_overflow(size) == size.ext

\* ------------------------------------------------------------------------
\* String::from_utf8
\* ------------------------------------------------------------------------
IsCont(b) == b >= 128 /\ b <= 191

Utf8Width(b) ==
    IF b < 128 THEN 1
    ELSE IF b >= 194 /\ b <= 223 THEN 2
    ELSE IF b >= 224 /\ b <= 239 THEN 3
    ELSE IF b >= 240 /\ b <= 244 THEN 4
    ELSE 0

Utf8Second(lead, b) ==
    CASE lead = 224 -> b >= 160 /\ b <= 191
      [] lead = 237 -> b >= 128 /\ b <= 159
      [] lead = 240 -> b >= 144 /\ b <= 191
      [] lead = 244 -> b >= 128 /\ b <= 143
      [] OTHER -> IsCont(b)

\* A scalar value starts at index i and is well formed.
Utf8CharAt(bs, i) ==
    LET w == Utf8Width(bs[i]) IN
    /\ w >= 1
    /\ i + w - 1 <= Len(bs)
    /\ w >= 2 => Utf8Second(bs[i], bs[i + 1])
    /\ \A k \in 2..(w - 1) : IsCont(bs[i + k])

\* The continuation byte at index i belongs to a scalar started before it.
Utf8Covered(bs, i) ==
    \E k \in 1..3 :
        /\ i - k >= 1
        /\ Utf8Width(bs[i - k]) > k
        /\ \A j \in (i - k + 1)..(i - 1) : IsCont(bs[j])

from_utf8(bs) ==
    \A i \in 1..Len(bs) :
        IF IsCont(bs[i]) THEN Utf8Covered(bs, i) ELSE Utf8CharAt(bs, i)

\* ------------------------------------------------------------------------
\* read
\* ------------------------------------------------------------------------
\* The arms of the match on the outcome io of read_exact.
read_tag_match(io) ==
    IF io.ok
    THEN IF Type_try_from(io.bs[1]).ok
         THEN Ok(<<Type_try_from(io.bs[1]).ty>>, [io.p EXCEPT !.tags = Append(@, io.p.pos)])
         ELSE Err("UnknownTag", [io.p EXCEPT !.tags = Append(@, io.p.pos)])
    ELSE IF io.kind = "UnexpectedEof"
    THEN Ok(<<>>, io.p)
    ELSE Err(ParseError_from_io(io.kind), io.p)

read_tag(p) == read_tag_match(read_exact(p, 1))

\* read_byte from the `?` on the outcome io of read_exact.
read_byte_from(io) ==
    IF io.ok THEN Ok(i8_from_be_bytes(io.bs), io.p) ELSE Err(ParseError_from_io(io.kind), io.p)

read_byte(p) == read_byte_from(read_exact(p, 1))

\* read_short from the `?` on the outcome io of read_exact.
read_short_from(io) ==
    IF io.ok THEN Ok(i16_from_be_bytes(io.bs), io.p) ELSE Err(ParseError_from_io(io.kind), io.p)

read_short(p) == read_short_from(read_exact(p, 2))

\* read_int from the `?` on the outcome io of read_exact.
read_int_from(io) ==
    IF io.ok THEN Ok(i32_from_be_bytes(io.bs), io.p) ELSE Err(ParseError_from_io(io.kind), io.p)

read_int(p) == read_int_from(read_exact(p, 4))

\* read_long from the `?` on the outcome io of read_exact.
read_long_from(io) ==
    IF io.ok THEN Ok(i64_from_be_bytes(io.bs), io.p) ELSE Err(ParseError_from_io(io.kind), io.p)

read_long(p) == read_long_from(read_exact(p, 8))

\* read_float from the `?` on the outcome io of read_exact.
read_float_from(io) ==
    IF io.ok THEN Ok(u32_from_be_bytes(io.bs), io.p) ELSE Err(ParseError_from_io(io.kind), io.p)

read_float(p) == read_float_from(read_exact(p, 4))

\* read_double from the `?` on the outcome io of read_exact.
read_double_from(io) ==
    IF io.ok THEN Ok(u64_from_be_bytes(io.bs), io.p) ELSE Err(ParseError_from_io(io.kind), io.p)

read_double(p) == read_double_from(read_exact(p, 8))

\* read_str from the `?` on the outcome io of read_exact.
read_str_from(io) ==
    IF ~io.ok THEN Err(ParseError_from_io(io.kind), io.p)
    ELSE IF from_utf8(io.bs) THEN Ok(io.bs, io.p)
    ELSE Err("InvalidUTF8", io.p)

\* read_str from the `?` on the outcome sz of read_short.
read_str_sized(sz) ==
    IF sz.st # "Ok" THEN sz
    ELSE IF capacity_overflow(as_usize(sz.val)) THEN Panic(sz.p)
    ELSE read_str_from(read_exact(sz.p, as_usize(sz.val).n))

\* Faulty variant: the length of a string is read as one byte.
read_str_byte_length(p) == read_str_sized(read_byte([p EXCEPT !.strs = Append(@, p.pos)]))

read_str(p) == read_str_sized(read_short([p EXCEPT !.strs = Append(@, p.pos)]))

\* ------------------------------------------------------------------------
\* Compound = BTreeMap<String, Value>: a function from names to values.
\* ------------------------------------------------------------------------
Compound_new == <<>>

\* Faulty variant: an existing entry is kept (entry().or_insert()).
Compound_insert_keep_first(m, name, payload) ==
    [k \in (DOMAIN m) \cup {name} |-> IF k \in DOMAIN m THEN m[k] ELSE payload]

Compound_insert(m, name, payload) ==
    [k \in (DOMAIN m) \cup {name} |-> IF k = name THEN payload ELSE m[k]]

RECURSIVE parse_list(_)
RECURSIVE read_compound_loop(_, _)
RECURSIVE parse_value_with_tag(_, _)

\* `for _ in 0..size { arr.push(self.read_byte()?) }`, n passes being left.
RECURSIVE read_byte_array_loop(_, _, _)
read_byte_array_loop(p, n, arr) ==
    IF n = 0 THEN Ok(arr, p)
    ELSE LET e == read_byte(p) IN
         IF e.st # "Ok" THEN e ELSE read_byte_array_loop(e.p, n - 1, Append(arr, e.val))

\* read_byte_array from the `?` on the outcome sz of read_int.
read_byte_array_sized(sz) ==
    IF sz.st # "Ok" THEN sz
    ELSE IF capacity_overflow(as_usize(sz.val)) THEN Panic(sz.p)
    ELSE read_byte_array_loop(sz.p, as_usize(sz.val).n, <<>>)

read_byte_array(p) == read_byte_array_sized(read_int(p))

\* `for _ in 0..size { arr.push(self.read_int()?) }`, n passes being left.
RECURSIVE read_int_array_loop(_, _, _)
read_int_array_loop(p, n, arr) ==
    IF n = 0 THEN Ok(arr, p)
    ELSE LET e == read_int(p) IN
         IF e.st # "Ok" THEN e ELSE read_int_array_loop(e.p, n - 1, Append(arr, e.val))

\* read_int_array from the `?` on the outcome sz of read_int.
read_int_array_sized(sz) ==
    IF sz.st # "Ok" THEN sz
    ELSE IF capacity_overflow(as_usize(sz.val)) THEN Panic(sz.p)
    ELSE read_int_array_loop(sz.p, as_usize(sz.val).n, <<>>)

read_int_array(p) == read_int_array_sized(read_int(p))

\* `for _ in 0..size { arr.push(self.read_long()?) }`, n passes being left.
RECURSIVE read_long_array_loop(_, _, _)
read_long_array_loop(p, n, arr) ==
    IF n = 0 THEN Ok(arr, p)
    ELSE LET e == read_long(p) IN
         IF e.st # "Ok" THEN e ELSE read_long_array_loop(e.p, n - 1, Append(arr, e.val))

\* read_long_array from the `?` on the outcome sz of read_int.
read_long_array_sized(sz) ==
    IF sz.st # "Ok" THEN sz
    ELSE IF capacity_overflow(as_usize(sz.val)) THEN Panic(sz.p)
    ELSE read_long_array_loop(sz.p, as_usize(sz.val).n, <<>>)

read_long_array(p) == read_long_array_sized(read_int(p))

read_compound(p) == read_compound_loop(p, Compound_new)

\* read_compound from the `?` on the outcome payload of parse_value_with_tag.
read_compound_insert(name, payload, root) ==
    IF payload.st # "Ok" THEN payload
    ELSE read_compound_loop(payload.p, Compound_insert(root, name, payload.val))

\* read_compound from the `?` on the outcome name of read_str.
read_compound_named(tag, name, root) ==
    IF name.st # "Ok" THEN name
    ELSE read_compound_insert(name.val, parse_value_with_tag(name.p, tag), root)

\* read_compound from the `?` on the outcome t of read_tag.
read_compound_tagged(t, root) ==
    IF t.st # "Ok" THEN t
    ELSE IF t.val = <<>> THEN Err("UnexpectedEnd", t.p)
    ELSE IF t.val[1] = "End" THEN Ok(root, t.p)
    ELSE read_compound_named(t.val[1], read_str(t.p), root)

\* One pass of the loop of read_compound, root being the record built so far.
read_compound_loop(p, root) == read_compound_tagged(read_tag(p), root)

\* ------------------------------------------------------------------------
\* parse subtypes
\* ------------------------------------------------------------------------
\* Ok(Value::X(r?)) for the outcome r of a reader.
Wrap(tag, r) == IF r.st = "Ok" THEN Ok(V(tag, r.val), r.p) ELSE r

parse_byte(p) == Wrap("Byte", read_byte(p))

parse_short(p) == Wrap("Short", read_short(p))

parse_int(p) == Wrap("Int", read_int(p))

parse_long(p) == Wrap("Long", read_long(p))

parse_float(p) == Wrap("Float", read_float(p))

parse_double(p) == Wrap("Double", read_double(p))

parse_byte_array(p) == Wrap("ByteArray", read_byte_array(p))

parse_str(p) == Wrap("Str", read_str(p))

parse_compound(p) == Wrap("Compound", read_compound(p))

parse_int_array(p) == Wrap("IntArray", read_int_array(p))

parse_long_array(p) == Wrap("LongArray", read_long_array(p))

\* ------------------------------------------------------------------------
\* list
\* ------------------------------------------------------------------------
\* `for _ in 0..size { list.push(self.read_byte()?) }`, n passes being left.
RECURSIVE parse_byte_list_loop(_, _, _)
parse_byte_list_loop(p, n, list) ==
    IF n = 0 THEN Ok(list, p)
    ELSE LET e == read_byte(p) IN
         IF e.st # "Ok" THEN e ELSE parse_byte_list_loop(e.p, n - 1, Append(list, e.val))

parse_byte_list(p, size) ==
    IF capacity_overflow(size) THEN Panic(p)
    ELSE Wrap("ByteList", parse_byte_list_loop(p, size.n, <<>>))

\* `for _ in 0..size { list.push(self.read_short()?) }`, n passes being left.
RECURSIVE parse_short_list_loop(_, _, _)
parse_short_list_loop(p, n, list) ==
    IF n = 0 THEN Ok(list, p)
    ELSE LET e == read_short(p) IN
         IF e.st # "Ok" THEN e ELSE parse_short_list_loop(e.p, n - 1, Append(list, e.val))

parse_short_list(p, size) ==
    IF capacity_overflow(size) THEN Panic(p)
    ELSE Wrap("ShortList", parse_short_list_loop(p, size.n, <<>>))

\* `for _ in 0..size { list.push(self.read_int()?) }`, n passes being left.
RECURSIVE parse_int_list_loop(_, _, _)
parse_int_list_loop(p, n, list) ==
    IF n = 0 THEN Ok(list, p)
    ELSE LET e == read_int(p) IN
         IF e.st # "Ok" THEN e ELSE parse_int_list_loop(e.p, n - 1, Append(list, e.val))

parse_int_list(p, size) ==
    IF capacity_overflow(size) THEN Panic(p)
    ELSE Wrap("IntList", parse_int_list_loop(p, size.n, <<>>))

\* `for _ in 0..size { list.push(self.read_long()?) }`, n passes being left.
RECURSIVE parse_long_list_loop(_, _, _)
parse_long_list_loop(p, n, list) ==
    IF n = 0 THEN Ok(list, p)
    ELSE LET e == read_long(p) IN
         IF e.st # "Ok" THEN e ELSE parse_long_list_loop(e.p, n - 1, Append(list, e.val))

parse_long_list(p, size) ==
    IF capacity_overflow(size) THEN Panic(p)
    ELSE Wrap("LongList", parse_long_list_loop(p, size.n, <<>>))

\* `for _ in 0..size { list.push(self.read_float()?) }`, n passes being left.
RECURSIVE parse_float_list_loop(_, _, _)
parse_float_list_loop(p, n, list) ==
    IF n = 0 THEN Ok(list, p)
    ELSE LET e == read_float(p) IN
         IF e.st # "Ok" THEN e ELSE parse_float_list_loop(e.p, n - 1, Append(list, e.val))

parse_float_list(p, size) ==
    IF capacity_overflow(size) THEN Panic(p)
    ELSE Wrap("FloatList", parse_float_list_loop(p, size.n, <<>>))

\* `for _ in 0..size { list.push(self.read_double()?) }`, n passes being left.
RECURSIVE parse_double_list_loop(_, _, _)
parse_double_list_loop(p, n, list) ==
    IF n = 0 THEN Ok(list, p)
    ELSE LET e == read_double(p) IN
         IF e.st # "Ok" THEN e ELSE parse_double_list_loop(e.p, n - 1, Append(list, e.val))

parse_double_list(p, size) ==
    IF capacity_overflow(size) THEN Panic(p)
    ELSE Wrap("DoubleList", parse_double_list_loop(p, size.n, <<>>))

\* `for _ in 0..size { list.push(self.read_byte_array()?) }`, n passes being left.
RECURSIVE parse_byte_array_list_loop(_, _, _)
parse_byte_array_list_loop(p, n, list) ==
    IF n = 0 THEN Ok(list, p)
    ELSE LET e == read_byte_array(p) IN
         IF e.st # "Ok" THEN e ELSE parse_byte_array_list_loop(e.p, n - 1, Append(list, e.val))

parse_byte_array_list(p, size) ==
    IF capacity_overflow(size) THEN Panic(p)
    ELSE Wrap("ByteArrayList", parse_byte_array_list_loop(p, size.n, <<>>))

\* `for _ in 0..size { list.push(self.read_str()?) }`, n passes being left.
RECURSIVE parse_str_list_loop(_, _, _)
parse_str_list_loop(p, n, list) ==
    IF n = 0 THEN Ok(list, p)
    ELSE LET e == read_str(p) IN
         IF e.st # "Ok" THEN e ELSE parse_str_list_loop(e.p, n - 1, Append(list, e.val))

parse_str_list(p, size) ==
    IF capacity_overflow(size) THEN Panic(p)
    ELSE Wrap("StrList", parse_str_list_loop(p, size.n, <<>>))

\* `for _ in 0..size { list.push(self.parse_list()?) }`, n passes being left.
RECURSIVE parse_list_list_loop(_, _, _)
parse_list_list_loop(p, n, list) ==
    IF n = 0 THEN Ok(list, p)
    ELSE LET e == parse_list(p) IN
         IF e.st # "Ok" THEN e ELSE parse_list_list_loop(e.p, n - 1, Append(list, e.val))

parse_list_list(p, size) ==
    IF capacity_overflow(size) THEN Panic(p)
    ELSE Wrap("ListList", parse_list_list_loop(p, size.n, <<>>))

\* `for _ in 0..size { list.push(self.read_compound()?) }`, n passes being left.
RECURSIVE parse_compound_list_loop(_, _, _)
parse_compound_list_loop(p, n, list) ==
    IF n = 0 THEN Ok(list, p)
    ELSE LET e == read_compound(p) IN
         IF e.st # "Ok" THEN e ELSE parse_compound_list_loop(e.p, n - 1, Append(list, e.val))

parse_compound_list(p, size) ==
    IF capacity_overflow(size) THEN Panic(p)
    ELSE Wrap("CompoundList", parse_compound_list_loop(p, size.n, <<>>))

\* `for _ in 0..size { list.push(self.read_int_array()?) }`, n passes being left.
RECURSIVE parse_int_array_list_loop(_, _, _)
parse_int_array_list_loop(p, n, list) ==
    IF n = 0 THEN Ok(list, p)
    ELSE LET e == read_int_array(p) IN
         IF e.st # "Ok" THEN e ELSE parse_int_array_list_loop(e.p, n - 1, Append(list, e.val))

parse_int_array_list(p, size) ==
    IF capacity_overflow(size) THEN Panic(p)
    ELSE Wrap("IntArrayList", parse_int_array_list_loop(p, size.n, <<>>))

\* `for _ in 0..size { list.push(self.read_long_array()?) }`, n passes being left.
RECURSIVE parse_long_array_list_loop(_, _, _)
parse_long_array_list_loop(p, n, list) ==
    IF n = 0 THEN Ok(list, p)
    ELSE LET e == read_long_array(p) IN
         IF e.st # "Ok" THEN e ELSE parse_long_array_list_loop(e.p, n - 1, Append(list, e.val))

parse_long_array_list(p, size) ==
    IF capacity_overflow(size) THEN Panic(p)
    ELSE Wrap("LongArrayList", parse_long_array_list_loop(p, size.n, <<>>))

\* Faulty variant: a byte list of count zero gets no special case.
parse_list_sized_no_sentinel(tag, sz) ==
    IF sz.st # "Ok" THEN sz
    ELSE CASE tag = "End" -> Ok(V("EndList", <<>>), sz.p)
           [] tag = "Byte" -> parse_byte_list(sz.p, as_usize(sz.val))
           [] tag = "Short" -> parse_short_list(sz.p, as_usize(sz.val))
           [] tag = "Int" -> parse_int_list(sz.p, as_usize(sz.val))
           [] tag = "Long" -> parse_long_list(sz.p, as_usize(sz.val))
           [] tag = "Float" -> parse_float_list(sz.p, as_usize(sz.val))
           [] tag = "Double" -> parse_double_list(sz.p, as_usize(sz.val))
           [] tag = "ByteArray" -> parse_byte_array_list(sz.p, as_usize(sz.val))
           [] tag = "Str" -> parse_str_list(sz.p, as_usize(sz.val))
           [] tag = "List" -> parse_list_list(sz.p, as_usize(sz.val))
           [] tag = "Compound" -> parse_compound_list(sz.p, as_usize(sz.val))
           [] tag = "IntArray" -> parse_int_array_list(sz.p, as_usize(sz.val))
           [] tag = "LongArray" -> parse_long_array_list(sz.p, as_usize(sz.val))

\* parse_list from the `?` on the outcome sz of read_int: the match on tag.
parse_list_sized(tag, sz) ==
    IF sz.st # "Ok" THEN sz
    ELSE CASE tag = "End" -> Ok(V("EndList", <<>>), sz.p)
           [] tag = "Byte" ->
                IF ~as_usize(sz.val).ext /\ as_usize(sz.val).n = 0
                THEN Ok(V("EmptyByteList", <<>>), sz.p)
                ELSE parse_byte_list(sz.p, as_usize(sz.val))
           [] tag = "Short" -> parse_short_list(sz.p, as_usize(sz.val))
           [] tag = "Int" -> parse_int_list(sz.p, as_usize(sz.val))
           [] tag = "Long" -> parse_long_list(sz.p, as_usize(sz.val))
           [] tag = "Float" -> parse_float_list(sz.p, as_usize(sz.val))
           [] tag = "Double" -> parse_double_list(sz.p, as_usize(sz.val))
           [] tag = "ByteArray" -> parse_byte_array_list(sz.p, as_usize(sz.val))
           [] tag = "Str" -> parse_str_list(sz.p, as_usize(sz.val))
           [] tag = "List" -> parse_list_list(sz.p, as_usize(sz.val))
           [] tag = "Compound" -> parse_compound_list(sz.p, as_usize(sz.val))
           [] tag = "IntArray" -> parse_int_array_list(sz.p, as_usize(sz.val))
           [] tag = "LongArray" -> parse_long_array_list(sz.p, as_usize(sz.val))

\* parse_list from the `?` on the outcome t of read_tag.
parse_list_tagged(t) ==
    IF t.st # "Ok" THEN t
    ELSE IF t.val = <<>> THEN Err("UnexpectedEnd", t.p)
    ELSE parse_list_sized(t.val[1], read_int(t.p))

parse_list(p) == parse_list_tagged(read_tag(p))

\* ------------------------------------------------------------------------
\* parse
\* ------------------------------------------------------------------------
parse_value_with_tag(p, tag) ==
    CASE tag = "End" -> Err("UnexpectedEnd", p)
      [] tag = "Byte" -> parse_byte(p)
      [] tag = "Short" -> parse_short(p)
      [] tag = "Int" -> parse_int(p)
      [] tag = "Long" -> parse_long(p)
      [] tag = "Float" -> parse_float(p)
      [] tag = "Double" -> parse_double(p)
      [] tag = "ByteArray" -> parse_byte_array(p)
      [] tag = "Str" -> parse_str(p)
      [] tag = "List" -> parse_list(p)
      [] tag = "Compound" -> parse_compound(p)
      [] tag = "IntArray" -> parse_int_array(p)
      [] tag = "LongArray" -> parse_long_array(p)

\* How one pass through the `while let` loop of parse ends: kind "return"
\* when read_tag gave None, "continue" after root.insert, "fail" when a `?`
\* returned an error, "panic" when a call unwound.
Step(kind, r, root) == [kind |-> kind, r |-> r, root |-> root]

\* A `?` of the loop of parse on an outcome r that is not Ok.
Stop(r, root) == Step(IF r.st = "Panic" THEN "panic" ELSE "fail", r, root)

\* The pass from the `?` on the outcome payload of parse_value_with_tag.
parse_insert(name, payload, root) ==
    IF payload.st # "Ok" THEN Stop(payload, root)
    ELSE Step("continue", payload, Compound_insert(root, name, payload.val))

\* The pass from the `?` on the outcome name of read_str.
parse_named(tag, name, root) ==
    IF name.st # "Ok" THEN Stop(name, root)
    ELSE parse_insert(name.val, parse_value_with_tag(name.p, tag), root)

\* The pass from the `?` on the outcome t of read_tag.
parse_tagged(t, root) ==
    IF t.st # "Ok" THEN Stop(t, root)
    ELSE IF t.val = <<>> THEN Step("return", Ok(V("Compound", root), t.p), root)
    ELSE parse_named(t.val[1], read_str(t.p), root)

\* One evaluation of the head and body of the `while let` loop of parse.
parse_iteration(p, root) == parse_tagged(read_tag(p), root)

\* parse run to its end, it being the outcome of its first pass.
RECURSIVE parse_loop(_)
parse_loop(it) ==
    IF it.kind = "continue" THEN parse_loop(parse_iteration(it.r.p, it.root)) ELSE it.r

parse(p) == parse_loop(parse_iteration(p, Compound_new))

\* ------------------------------------------------------------------------
\* Reference encoder for the wire grammar.  A tree is written in entry
\* order: the val of a "Compound" is a sequence of entries [name, value]
\* and the val of a "CompoundList" a sequence of such sequences; every
\* other variant carries the val the decoder produces for it.
\* ------------------------------------------------------------------------
TagByte(ty) ==
    CASE ty = "End" -> 0 [] ty = "Byte" -> 1 [] ty = "Short" -> 2 [] ty = "Int" -> 3
      [] ty = "Long" -> 4 [] ty = "Float" -> 5 [] ty = "Double" -> 6
      [] ty = "ByteArray" -> 7 [] ty = "Str" -> 8 [] ty = "List" -> 9
      [] ty = "Compound" -> 10 [] ty = "IntArray" -> 11 [] ty = "LongArray" -> 12

ListTags ==
    {"EndList", "EmptyByteList", "ByteList", "ShortList", "IntList", "LongList", "FloatList",
     "DoubleList", "ByteArrayList", "StrList", "ListList", "CompoundList", "IntArrayList",
     "LongArrayList"}

\* The wire type of a variant: of the value itself, or of a list's elements.
WireType(tag) ==
    CASE tag \in ListTags -> "List"
      [] OTHER -> tag

ElemType(tag) ==
    CASE tag = "EndList" -> "End"
      [] tag = "EmptyByteList" -> "Byte"
      [] tag = "ByteList" -> "Byte"
      [] tag = "ShortList" -> "Short"
      [] tag = "IntList" -> "Int"
      [] tag = "LongList" -> "Long"
      [] tag = "FloatList" -> "Float"
      [] tag = "DoubleList" -> "Double"
      [] tag = "ByteArrayList" -> "ByteArray"
      [] tag = "StrList" -> "Str"
      [] tag = "ListList" -> "List"
      [] tag = "CompoundList" -> "Compound"
      [] tag = "IntArrayList" -> "IntArray"
      [] tag = "LongArrayList" -> "LongArray"

be_u8(v) == << v % 256 >>

be_u16(v) == << (v \div 256) % 256, v % 256 >>

be_u32(v) == << (v \div 16777216) % 256, (v \div 65536) % 256, (v \div 256) % 256, v % 256 >>

be_limbs2(l) == be_u16(l[1]) \o be_u16(l[2])

be_limbs4(l) == be_u16(l[1]) \o be_u16(l[2]) \o be_u16(l[3]) \o be_u16(l[4])

EncStr(s) == be_u16(Len(s)) \o s

RECURSIVE EncBare(_, _)
RECURSIVE EncSeq(_, _)
RECURSIVE EncEntries(_)

\* The unnamed payload of wire type ty holding val.
EncBare(ty, val) ==
    CASE ty = "Byte" -> be_u8(val)
      [] ty = "Short" -> be_u16(val)
      [] ty = "Int" -> be_u32(val)
      [] ty = "Long" -> be_limbs4(val)
      [] ty = "Float" -> be_limbs2(val)
      [] ty = "Double" -> be_limbs4(val)
      [] ty = "ByteArray" -> be_u32(Len(val)) \o EncSeq("Byte", val)
      [] ty = "Str" -> EncStr(val)
      [] ty = "List" ->
            << TagByte(ElemType(val.tag)) >> \o be_u32(Len(val.val))
                \o EncSeq(ElemType(val.tag), val.val)
      [] ty = "Compound" -> EncEntries(val) \o << 0 >>
      [] ty = "IntArray" -> be_u32(Len(val)) \o EncSeq("Int", val)
      [] ty = "LongArray" -> be_u32(Len(val)) \o EncSeq("Long", val)

EncSeq(ty, vals) ==
    IF vals = <<>> THEN <<>>
    ELSE EncBare(ty, Head(vals)) \o EncSeq(ty, Tail(vals))

\* The payload of a value: a list variant is its own list payload.
EncPayload(w) == EncBare(WireType(w.tag), IF w.tag \in ListTags THEN w ELSE w.val)

EncEntry(e) == << TagByte(WireType(e.value.tag)) >> \o EncStr(e.name) \o EncPayload(e.value)

EncEntries(es) ==
    IF es = <<>> THEN <<>>
    ELSE EncEntry(Head(es)) \o EncEntries(Tail(es))

\* The Value a tree denotes: a record keeps, for every name, the value of
\* the last entry carrying it.
RECURSIVE ToValue(_)
RECURSIVE Record(_)

LastIndex(es, k) ==
    CHOOSE i \in DOMAIN es : es[i].name = k /\ \A j \in DOMAIN es : es[j].name = k => j <= i

Record(es) ==
    [k \in {es[i].name : i \in DOMAIN es} |-> ToValue(es[LastIndex(es, k)].value)]

ToValue(w) ==
    CASE w.tag = "Compound" -> V("Compound", Record(w.val))
      [] w.tag = "CompoundList" -> V("CompoundList", [i \in DOMAIN w.val |-> Record(w.val[i])])
      [] w.tag = "ListList" -> V("ListList", [i \in DOMAIN w.val |-> ToValue(w.val[i])])
      [] OTHER -> w

\* ------------------------------------------------------------------------
\* #[derive(PartialEq)] on Value: structural, with the IEEE-754 comparison
\* of floats (a NaN differs from everything, the two zeros are equal).
\* ------------------------------------------------------------------------
f32_is_nan(bits) == bits[1] % 32768 >= 32640 /\ (bits[1] % 128 # 0 \/ bits[2] # 0)

f32_is_zero(bits) == bits[1] % 32768 = 0 /\ bits[2] = 0

f32_eq(a, b) == ~f32_is_nan(a) /\ ~f32_is_nan(b) /\ (a = b \/ (f32_is_zero(a) /\ f32_is_zero(b)))

f64_is_nan(bits) ==
    bits[1] % 32768 >= 32752 /\ (bits[1] % 16 # 0 \/ bits[2] # 0 \/ bits[3] # 0 \/ bits[4] # 0)

f64_is_zero(bits) == bits[1] % 32768 = 0 /\ bits[2] = 0 /\ bits[3] = 0 /\ bits[4] = 0

f64_eq(a, b) == ~f64_is_nan(a) /\ ~f64_is_nan(b) /\ (a = b \/ (f64_is_zero(a) /\ f64_is_zero(b)))

RECURSIVE Value_eq(_, _)
RECURSIVE Compound_eq(_, _)

Compound_eq(a, b) ==
    /\ DOMAIN a = DOMAIN b
    /\ \A k \in DOMAIN a : Value_eq(a[k], b[k])

Value_eq(a, b) ==
    /\ a.tag = b.tag
    /\ CASE a.tag = "Float" -> f32_eq(a.val, b.val)
         [] a.tag = "Double" -> f64_eq(a.val, b.val)
         [] a.tag = "FloatList" ->
               Len(a.val) = Len(b.val) /\ \A i \in DOMAIN a.val : f32_eq(a.val[i], b.val[i])
         [] a.tag = "DoubleList" ->
               Len(a.val) = Len(b.val) /\ \A i \in DOMAIN a.val : f64_eq(a.val[i], b.val[i])
         [] a.tag = "Compound" -> Compound_eq(a.val, b.val)
         [] a.tag = "CompoundList" ->
               Len(a.val) = Len(b.val) /\ \A i \in DOMAIN a.val : Compound_eq(a.val[i], b.val[i])
         [] a.tag = "ListList" ->
               Len(a.val) = Len(b.val) /\ \A i \in DOMAIN a.val : Value_eq(a.val[i], b.val[i])
         [] OTHER -> a.val = b.val

\* ------------------------------------------------------------------------
\* Inputs.  Trees within the bounds below are encoded and given to the
\* parser whole, cut short, with one byte replaced, or from a source that
\* faults after some bytes; a few inputs are written out byte by byte.
\* ------------------------------------------------------------------------
MaxCount == 2

MaxEntries == 2

SeqsUpTo(S, n) == UNION {[1..k -> S] : k \in 0..n}

Names == {<<>>, <<120>>}

Entry(name, value) == [name |-> name, value |-> value]

ListsOf(tag, S) == {V(tag, l) : l \in SeqsUpTo(S, MaxCount)}

F32One == <<16256, 0>>

F32NaN == <<32704, 0>>

F64One == <<16368, 0, 0, 0>>

F64NaN == <<32760, 0, 0, 1>>

I64A == <<258, 772, 1286, 1800>>

I64B == <<0 - 2, 65535, 0, 3>>

Scalars ==
    {V("Byte", 42), V("Byte", 0 - 1), V("Short", 258), V("Short", 0 - 2),
     V("Int", 16909060), V("Int", 0 - 3), V("Long", I64A), V("Long", I64B),
     V("Float", F32One), V("Float", F32NaN), V("Double", F64One), V("Double", F64NaN)}

Arrays ==
    {V("ByteArray", l) : l \in SeqsUpTo({7, 0 - 1}, MaxCount)}
        \cup {V("IntArray", l) : l \in SeqsUpTo({16909060}, MaxCount)}
        \cup {V("LongArray", l) : l \in SeqsUpTo({I64B}, MaxCount)}

Strs == {V("Str", <<>>), V("Str", <<120>>), V("Str", <<195, 169>>)}

FlatLists ==
    {V("EndList", <<>>), V("EmptyByteList", <<>>)}
        \cup ListsOf("ByteList", {42})
        \cup ListsOf("ShortList", {258, 0 - 2})
        \cup ListsOf("IntList", {0 - 3})
        \cup ListsOf("LongList", {I64A})
        \cup ListsOf("FloatList", {F32One})
        \cup ListsOf("DoubleList", {F64One})
        \cup ListsOf("ByteArrayList", {<<>>, <<7>>})
        \cup ListsOf("StrList", {<<>>, <<120>>})
        \cup ListsOf("IntArrayList", {<<>>, <<16909060>>})
        \cup ListsOf("LongArrayList", {<<I64A>>})

\* Values of the entries of a top-level sequence, of a nested compound and
\* of a list of lists.
InnerValues == {V("Byte", 42), V("Str", <<120>>), V("EmptyByteList", <<>>)}

NestedValues == {V("Byte", 42), V("EmptyByteList", <<>>)}

InnerLists == {V("EmptyByteList", <<>>), V("ShortList", <<258>>)}

EntrySeqs(vals, n) == SeqsUpTo({Entry(nm, v) : nm \in Names, v \in vals}, n)

Compounds == {V("Compound", es) : es \in EntrySeqs(NestedValues, MaxEntries)}

InnerCompounds ==
    {<<Entry(<<>>, V("Byte", 42))>>,
     <<Entry(<<120>>, V("Byte", 42)), Entry(<<120>>, V("Str", <<120>>))>>}

ListLists == ListsOf("ListList", InnerLists)

CompoundLists == ListsOf("CompoundList", InnerCompounds)

\* Containers of containers.
Deep ==
    {V("Compound", <<Entry(<<120>>, v)>>) :
        v \in {V("Compound", <<Entry(<<>>, V("Byte", 42))>>),
               V("ListList", <<V("ShortList", <<258>>)>>),
               V("CompoundList", <<<<Entry(<<120>>, V("Byte", 42))>>>>)}}
        \cup {V("ListList", <<V("ListList", <<V("EndList", <<>>)>>)>>),
              V("CompoundList", <<<<Entry(<<120>>, V("Compound", <<>>))>>>>)}

Values == Scalars \cup Arrays \cup Strs \cup FlatLists \cup Compounds \cup ListLists
              \cup CompoundLists \cup Deep

\* Top-level entry sequences: any one value, or several small ones.
Trees ==
    {<<>>} \cup {<<Entry(<<120>>, v)>> : v \in Values}
        \cup EntrySeqs(InnerValues, MaxEntries)

\* Strings around the limit of a signed 2-byte length: a name (which = 0) or
\* a string payload (which = 1) of n bytes "a".
LongLens == {32767, 32768}

\* The string "a" and its byte.
LetterA == <<97>>

FillByte == LetterA[1]

LongStr(n) == <<>> \o [i \in 1..n |-> FillByte]

LongTree(n, which) ==
    IF which = 0 THEN <<Entry(LongStr(n), V("Byte", 42))>>
    ELSE <<Entry(<<120>>, V("Str", LongStr(n)))>>

ExampleBytes == <<10, 0, 0, 1, 0, 3, 120, 0, 42, 0>>

Literals ==
    << ExampleBytes,
       <<10, 0, 0, 1, 0, 1, 120, 42, 0>>,
       <<0, 0, 0, 1>>,
       <<7, 0, 0, 255, 255, 255, 255>> >>

ReplacementBytes == {0, 13, 255}

Origin(kind, entries, at, byte) == [kind |-> kind, entries |-> entries, at |-> at, byte |-> byte]

\* The inputs made from the tree t, whose encoding has n bytes.
OriginsOf(t, n) ==
    {Origin("enc", t, 0, 0)}
        \cup {Origin("cut", t, c, 0) : c \in 0..(n - 1)}
        \cup {Origin("fault", t, c, 0) : c \in 0..n}
        \cup {Origin("replace", t, c, b) : c \in 1..n, b \in ReplacementBytes}

\* The entries an origin is made from.
Tree(o) == IF o.kind = "long" THEN LongTree(o.at, o.byte) ELSE o.entries

Bytes(o) ==
    CASE o.kind = "enc" -> EncEntries(o.entries)
      [] o.kind = "long" -> EncEntries(Tree(o))
      [] o.kind = "bytes" -> Literals[o.at]
      [] o.kind = "cut" -> SubSeq(EncEntries(o.entries), 1, o.at)
      [] o.kind = "fault" -> EncEntries(o.entries)
      [] o.kind = "replace" -> [EncEntries(o.entries) EXCEPT ![o.at] = o.byte]

\* The source delivering bs, its first run of FillByte folded into count.
Source(bs) ==
    IF \A i \in DOMAIN bs : bs[i] # FillByte
    THEN [head |-> bs, fill |-> FillByte, count |-> 0, tail |-> <<>>]
    ELSE LET a == CHOOSE i \in DOMAIN bs : bs[i] = FillByte /\ \A k \in 1..(i - 1) : bs[k] # FillByte
             b == CHOOSE j \in a..Len(bs) :
                      /\ j = Len(bs) \/ bs[j + 1] # FillByte
                      /\ \A k \in a..j : bs[k] = FillByte
         IN  [head |-> SubSeq(bs, 1, a - 1), fill |-> FillByte, count |-> b - a + 1,
              tail |-> SubSeq(bs, b + 1, Len(bs))]

Input(o) == Source(Bytes(o))

Fault(o) == IF o.kind = "fault" THEN o.at ELSE NoFault

\* ------------------------------------------------------------------------
\* Parser::parse
\* ------------------------------------------------------------------------
VARIABLES origin, parser, root, pc, result

vars == <<origin, parser, root, pc, result>>

NoResult == [st |-> "None", val |-> <<>>, err |-> "None"]

Returned(r) == [st |-> r.st, val |-> r.val, err |-> r.err]

Init ==
    /\ \/ \E t \in Trees : origin \in OriginsOf(t, Len(EncEntries(t)))
       \/ \E n \in LongLens, which \in {0, 1} : origin = Origin("long", <<>>, n, which)
       \/ \E i \in DOMAIN Literals : origin = Origin("bytes", <<>>, i, 0)
    /\ parser = Parser_new(Input(origin), Fault(origin))
    /\ root = Compound_new
    /\ pc = "loop"
    /\ result = NoResult

\* The pass ended with root.insert: the loop goes on.
LoopContinues(it) ==
    /\ it.kind = "continue"
    /\ parser' = it.r.p
    /\ root' = it.root

\* The pass ended parse the way kind names.
LoopEnds(it, kind) ==
    /\ it.kind = kind
    /\ parser' = it.r.p
    /\ result' = Returned(it.r)

\* read_tag gave a tag, the name and the payload were read: root.insert.
ParseEntry ==
    /\ pc = "loop"
    /\ LoopContinues(parse_iteration(parser, root))
    /\ UNCHANGED <<origin, pc, result>>

\* read_tag gave None: Ok(Value::Compound(root)).
ParseReturn ==
    /\ pc = "loop"
    /\ LoopEnds(parse_iteration(parser, root), "return")
    /\ pc' = "done"
    /\ UNCHANGED <<origin, root>>

\* One of the three `?` of the loop returned the error.
ParseFail ==
    /\ pc = "loop"
    /\ LoopEnds(parse_iteration(parser, root), "fail")
    /\ pc' = "done"
    /\ UNCHANGED <<origin, root>>

\* An allocation inside the pass panicked: parse does not return.
ParsePanic ==
    /\ pc = "loop"
    /\ LoopEnds(parse_iteration(parser, root), "panic")
    /\ pc' = "done"
    /\ UNCHANGED <<origin, root>>

Next == ParseEntry \/ ParseReturn \/ ParseFail \/ ParsePanic

Spec == Init /\ [][Next]_vars

\* ------------------------------------------------------------------------
\* Properties
\* ------------------------------------------------------------------------
Done == pc = "done"

Src == parser.src

Entries == Tree(origin)

Full == EncEntries(Entries)

ReturnedErr(e) == result.st = "Err" /\ result.err = e

\* Byte offsets of the i-th top-level entry of es in its encoding.
EntryStart(es, i) == Len(EncEntries(SubSeq(es, 1, i - 1)))

PayloadStart(es, i) == EntryStart(es, i) + 3 + Len(es[i].name)

EntryEnd(es, i) == Len(EncEntries(SubSeq(es, 1, i)))

Structured(w) ==
    WireType(w.tag) \in {"ByteArray", "Str", "List", "Compound", "IntArray", "LongArray"}

\* A prefix of c bytes ends strictly inside a structured top-level payload
\* (every nested payload lies inside one).
InsidePayload(es, c) ==
    \E i \in DOMAIN es :
        Structured(es[i].value) /\ PayloadStart(es, i) < c /\ c < EntryEnd(es, i)

\* Every node of a tree, the elements of a CompoundList taken as records.
RECURSIVE Nodes(_)
RECURSIVE SeqNodes(_)

Nodes(w) ==
    <<w>> \o CASE w.tag = "Compound" -> SeqNodes([i \in DOMAIN w.val |-> w.val[i].value])
               [] w.tag = "CompoundList" ->
                     SeqNodes([i \in DOMAIN w.val |-> V("Compound", w.val[i])])
               [] w.tag = "ListList" -> SeqNodes(w.val)
               [] OTHER -> <<>>

SeqNodes(ws) == IF Len(ws) = 0 THEN <<>> ELSE Nodes(ws[1]) \o SeqNodes(Tail(ws))

TreeNodes == Nodes(V("Compound", Entries))

\* C1 (as stated): the ten example bytes decode to the record {"x": Byte(42)}.
C1_ExampleDecodes ==
    (Done /\ origin.kind = "bytes" /\ origin.at = 1)
        => (result.st = "Ok"
            /\ result.val = V("Compound", Compound_insert(Compound_new, <<120>>, V("Byte", 42))))

\* C1 (amended): on the ten example bytes parse returns Err(UnexpectedEnd):
\* the length 00 03 makes 78 00 2A the name, 00 the Byte payload, and the
\* stream ends inside the root compound.
C1_ExampleUnexpectedEnd ==
    (Done /\ origin.kind = "bytes" /\ origin.at = 1)
        => (ReturnedErr("UnexpectedEnd") /\ parser.pos = 10 /\ parser.strs = <<1, 4>>)

C1_Witness == Done /\ origin.kind = "bytes" /\ origin.at = 1

\* C3: when parse succeeds on an input, it returns Err(UnexpectedEnd) on
\* every prefix that ends strictly inside a string, array, list or compound
\* payload.
C3_Truncation ==
    (/\ Done
     /\ origin.kind = "cut"
     /\ parse(Parser_new(Source(Full), NoFault)).st = "Ok"
     /\ InsidePayload(Entries, origin.at))
        => ReturnedErr("UnexpectedEnd")

\* A prefix ending just before the terminator of a nested compound.
C3_Witness ==
    /\ Done
    /\ origin.kind = "cut"
    /\ InsidePayload(Entries, origin.at)
    /\ Len(Entries) = 1
    /\ Entries[1].value.tag = "Compound"
    /\ Len(Entries[1].value.val) = 1
    /\ Entries[1].value.val[1].value.tag = "Compound"
    /\ origin.at = Len(Full) - 2
    /\ ReturnedErr("UnexpectedEnd")

\* C7: a byte 13..255 read as a tag makes parse return Err(UnknownTag), and
\* a byte 0..12 read as a tag never does: parse returns UnknownTag exactly
\* when the last byte read as a tag is above 12, every earlier one being
\* at most 12.
C7_UnknownTag ==
    LET tg == parser.tags IN
    /\ \A i \in 1..(Len(tg) - 1) : SrcAt(Src, tg[i]) <= 12
    /\ Done =>
          /\ ReturnedErr("UnknownTag") <=> (Len(tg) > 0 /\ SrcAt(Src, tg[Len(tg)]) >= 13)
          /\ \A b \in 0..255 : Type_try_from(b).ok <=> b <= 12

\* The element tag of a list payload replaced by 13.
C7_Witness ==
    /\ Done
    /\ origin.kind = "replace"
    /\ origin.byte = 13
    /\ Len(Entries) = 1
    /\ WireType(Entries[1].value.tag) = "List"
    /\ origin.at = PayloadStart(Entries, 1) + 1
    /\ parser.tags = <<1, origin.at>>
    /\ ReturnedErr("UnknownTag")

\* The count of the array or list payload of the only entry has its first
\* byte replaced by FF, or the input is 07 00 00 FF FF FF FF.
NegativeCount ==
    \/ origin.kind = "bytes" /\ origin.at = 4
    \/ /\ origin.kind = "replace"
       /\ origin.byte = 255
       /\ Len(Entries) = 1
       /\ LET w == Entries[1].value IN
          \/ /\ w.tag \in {"ByteArray", "IntArray", "LongArray"}
             /\ origin.at = PayloadStart(Entries, 1) + 1
          \/ /\ w.tag \in ListTags \ {"EndList"}
             /\ origin.at = PayloadStart(Entries, 1) + 2

\* C9: with a negative count in an array payload, or in a list payload whose
\* element tag is not the terminator, parse returns Err(UnexpectedEnd).
C9_NegativeCount == (Done /\ NegativeCount) => ReturnedErr("UnexpectedEnd")

\* C10: parse returns Err(UnexpectedEnd) only with the source exhausted, and
\* no name is read after a terminator tag.
C10_UnexpectedEndMeansEnd ==
    Done =>
        /\ ReturnedErr("UnexpectedEnd") => parser.pos = SrcLen(Src)
        /\ \A i \in DOMAIN parser.tags :
              SrcAt(Src, parser.tags[i]) = 0 =>
                  \A j \in DOMAIN parser.strs : parser.strs[j] # parser.tags[i]

\* The tree is a Value: no record of it has two entries of one name.
UniqueNames ==
    \A n \in DOMAIN TreeNodes :
        TreeNodes[n].tag = "Compound" =>
            \A i, j \in DOMAIN TreeNodes[n].val :
                TreeNodes[n].val[i].name = TreeNodes[n].val[j].name => i = j

\* Some record of the tree has two entries of one name with different values.
DuplicateNames ==
    \E n \in DOMAIN TreeNodes :
        /\ TreeNodes[n].tag = "Compound"
        /\ \E i, j \in DOMAIN TreeNodes[n].val :
              /\ i < j
              /\ TreeNodes[n].val[i].name = TreeNodes[n].val[j].name
              /\ TreeNodes[n].val[i].value # TreeNodes[n].val[j].value

HasEmptyByteList ==
    \E n \in DOMAIN TreeNodes : TreeNodes[n].tag = "ByteList" /\ Len(TreeNodes[n].val) = 0

HasNaN ==
    \E n \in DOMAIN TreeNodes :
        LET w == TreeNodes[n] IN
        \/ w.tag = "Float" /\ f32_is_nan(w.val)
        \/ w.tag = "Double" /\ f64_is_nan(w.val)
        \/ w.tag = "FloatList" /\ \E i \in DOMAIN w.val : f32_is_nan(w.val[i])
        \/ w.tag = "DoubleList" /\ \E i \in DOMAIN w.val : f64_is_nan(w.val[i])

\* Some string or name of the tree is longer than n bytes.
HasStrOver(n) ==
    \E k \in DOMAIN TreeNodes :
        LET w == TreeNodes[k] IN
        \/ w.tag = "Str" /\ Len(w.val) > n
        \/ w.tag = "StrList" /\ \E i \in DOMAIN w.val : Len(w.val[i]) > n
        \/ w.tag = "Compound" /\ \E i \in DOMAIN w.val : Len(w.val[i].name) > n

Expected == V("Compound", Record(Entries))

DecodedPayload(e) ==
    parse_value_with_tag(Parser_new(Source(EncPayload(e.value)), NoFault), WireType(e.value.tag)).val

\* C4: on the concatenation of k >= 0 complete top-level entries parse
\* returns Ok(Compound(r)), r holding exactly the names of the entries, each
\* mapped to its decoded payload (of the last entry of that name).
C4_CleanEnd ==
    (Done /\ origin.kind \in {"enc", "long"})
        => /\ result.st = "Ok"
           /\ result.val.tag = "Compound"
           /\ DOMAIN result.val.val = {Entries[i].name : i \in DOMAIN Entries}
           /\ \A i \in DOMAIN Entries :
                 i = LastIndex(Entries, Entries[i].name)
                     => result.val.val[Entries[i].name] = DecodedPayload(Entries[i])

\* The parser placed at offset q of its source.
At(q) == [parser EXCEPT !.pos = q]

\* C5: a 2-byte prefix encoding L in 0..65535 followed by L bytes of valid
\* UTF-8 is read as the string of those L bytes, consuming 2 + L bytes.
C5_StringLength ==
    \A j \in DOMAIN parser.strs :
        LET q == parser.strs[j] IN
        (parser.fault = NoFault /\ q + 2 <= SrcLen(Src))
            => LET L == u16_from_be_bytes(SrcSub(Src, q + 1, q + 2)) IN
               (q + 2 + L <= SrcLen(Src) /\ from_utf8(SrcSub(Src, q + 3, q + 2 + L)))
                   => LET r == read_str(At(q)) IN
                      /\ r.st = "Ok"
                      /\ r.val = SrcSub(Src, q + 3, q + 2 + L)
                      /\ r.p.pos = q + 2 + L

\* C6: when the entries of a record repeat a name, the decoded record has
\* one entry for the name, holding the payload of the last such entry, and
\* the other names are unaffected.
C6_DuplicateKeys ==
    (Done /\ origin.kind = "enc" /\ DuplicateNames /\ result.st = "Ok")
        => result.val = Expected

\* Two top-level entries of one name, then one of another name.
C6_Witness ==
    /\ Done
    /\ origin.kind = "enc"
    /\ result.st = "Ok"
    /\ Len(Entries) = 2
    /\ Entries[1].name = Entries[2].name
    /\ Entries[1].value # Entries[2].value
    /\ result.val.val[Entries[1].name] = Entries[2].value

RECURSIVE HoldsEmptyByteList(_)
HoldsEmptyByteList(v) ==
    CASE v.tag = "Compound" -> \E k \in DOMAIN v.val : HoldsEmptyByteList(v.val[k])
      [] v.tag = "CompoundList" ->
            \E i \in DOMAIN v.val : \E k \in DOMAIN v.val[i] : HoldsEmptyByteList(v.val[i][k])
      [] v.tag = "ListList" -> \E i \in DOMAIN v.val : HoldsEmptyByteList(v.val[i])
      [] OTHER -> v.tag = "ByteList" /\ Len(v.val) = 0

\* C8: a list payload with element tag 1 decodes to EmptyByteList exactly
\* when its count is zero and to a ByteList of count elements otherwise, so
\* no tree parse returns holds an empty ByteList.
C8_EmptyByteList ==
    /\ (Done /\ result.st = "Ok") => ~HoldsEmptyByteList(result.val)
    /\ (Done /\ origin.kind # "long") =>
          \A q \in 0..(SrcLen(Src) - 5) :
              SrcAt(Src, q + 1) = 1 =>
                  LET r == parse_list(At(q))
                      count == i32_from_be_bytes(SrcSub(Src, q + 2, q + 5))
                  IN  r.st = "Ok" =>
                          IF count = 0 THEN r.val = V("EmptyByteList", <<>>)
                          ELSE r.val.tag = "ByteList" /\ Len(r.val.val) = count

\* A zero-length byte list inside a list of lists, and a byte list of two.
C8_Witness ==
    /\ Done
    /\ origin.kind = "enc"
    /\ result.st = "Ok"
    /\ Len(Entries) = 1
    /\ Entries[1].value = V("ByteList", <<>>)
    /\ result.val.val[Entries[1].name] = V("EmptyByteList", <<>>)

====
